---- MODULE Spec2Model ----
(***************************************************************************)
(* Model of app.py, the Streamlit review-reply assistant.                  *)
(*                                                                         *)
(* Streamlit executes the whole script once per user action.  In every     *)
(* run the local `reviews` starts as [] (line 163), a button reads True    *)
(* only in the run its click triggered, and only st.session_state          *)
(* (bp_service, bp_accounts) and the radio/selectbox values survive from   *)
(* one run to the next.                                                    *)
(*                                                                         *)
(* Three specifications:                                                   *)
(*   Spec      the session: one action per user action, each a full run    *)
(*             of the script;                                              *)
(*   SpecPost  the section "Show and prepare replies" (lines 211-270) on   *)
(*             a review list a fetcher returned, with the button of line   *)
(*             236 read as pressed;                                        *)
(*   SpecFn    the pure helpers applied to inputs drawn from bounded sets. *)
(*                                                                         *)
(* Python values: an optional value (None or v) is the sequence <<>> or    *)
(* <<v>>.  A dict whose iteration order matters is a sequence of pairs.    *)
(***************************************************************************)
EXTENDS Integers, Sequences, FiniteSets, TLC

VARIABLES
    secrets,      \* st.secrets as read at lines 138-142 and the import flag of lines 18-23
    mode,         \* st.radio value, line 161
    bp_service,   \* st.session_state["bp_service"]
    bp_accounts,  \* st.session_state["bp_accounts"]
    reviews,      \* the local `reviews` at the end of the run
    drafts,       \* the previews shown on the page, one per unanswered review
    to_post,      \* the list built at lines 217-231
    results,      \* the list shown by st.json(results), line 270
    writes,       \* reply() calls issued so far, in order: <<name, comment>>
    errors,       \* the st.error / st.warning messages of the last run
    last,         \* the user action that triggered the last run
    call          \* SpecFn: the last two helper calls

vars == <<secrets, mode, bp_service, bp_accounts, reviews, drafts,
          to_post, results, writes, errors, last, call>>

-----------------------------------------------------------------------------
(* Bounds of the model *)

MaxReviews == 2
MaxConnects == 2

-----------------------------------------------------------------------------
(* Python values *)

None == <<>>
Some(v) == <<v>>

\* truthiness of an optional str: None and "" are falsy
TruthyStr(o) == o # None /\ o[1] # ""
\* truthiness of an optional int: None and 0 are falsy
TruthyInt(o) == o # None /\ o[1] # 0

\* o or d
OrStr(o, d) == IF TruthyStr(o) THEN o[1] ELSE d
OrInt(o, d) == IF TruthyInt(o) THEN o[1] ELSE d

\* dict.get(key, d): the default replaces a missing key only
GetOr(o, d) == IF o # None THEN o[1] ELSE d

\* the outcome of a call that may raise
Raised == [raised |-> TRUE]
Returned(v) == [raised |-> FALSE, value |-> v]

-----------------------------------------------------------------------------
(* Strings: str.upper, str.strip, str.split on ASCII text *)
(* IsSpace holds the ASCII characters str.strip and str.split take as      *)
(* whitespace: space, \t, \n, \r, \f, and the five control characters      *)
(* 0x0B, 0x1C, 0x1D, 0x1E, 0x1F, which have no escape and stand in their    *)
(* literals as themselves.  The non-ASCII whitespace of Python (U+0085,     *)
(* U+00A0, U+2000 and the like) cannot be written in a module and is not    *)
(* covered.                                                                 *)

LowerAlphabet == "abcdefghijklmnopqrstuvwxyz"
UpperAlphabet == "ABCDEFGHIJKLMNOPQRSTUVWXYZ"

CharAt(s, i) == SubSeq(s, i, i)

LowerLetters == {CharAt(LowerAlphabet, i) : i \in 1..26}
UpperOf == [c \in LowerLetters |->
               CharAt(UpperAlphabet, CHOOSE i \in 1..26 : CharAt(LowerAlphabet, i) = c)]

UpperChar(c) == IF c \in LowerLetters THEN UpperOf[c] ELSE c

RECURSIVE StrUpper(_)
StrUpper(s) ==
    IF s = "" THEN ""
    ELSE UpperChar(CharAt(s, 1)) \o StrUpper(SubSeq(s, 2, Len(s)))

\* vertical tab 0x0B, file, group, record and unit separator 0x1C..0x1F
VT == ""
FS == ""
GS == ""
RS == ""
US == ""

IsSpace(c) == c \in {" ", "\t", "\n", "\r", "\f", VT, FS, GS, RS, US}

RECURSIVE LStrip(_)
LStrip(s) ==
    IF s = "" THEN ""
    ELSE IF IsSpace(CharAt(s, 1)) THEN LStrip(SubSeq(s, 2, Len(s)))
    ELSE s

\* s.strip() is non-empty
HasNonSpace(s) == LStrip(s) # ""

\* the characters of s up to its first space
RECURSIVE TakeWord(_)
TakeWord(s) ==
    IF s = "" THEN ""
    ELSE IF IsSpace(CharAt(s, 1)) THEN ""
    ELSE CharAt(s, 1) \o TakeWord(SubSeq(s, 2, Len(s)))

\* s.split()[0], for s with a non-space character
FirstToken(s) == TakeWord(LStrip(s))

\* sub in s
Contains(s, sub) ==
    \E i \in 1..(Len(s) - Len(sub) + 1) : SubSeq(s, i, i + Len(sub) - 1) = sub

-----------------------------------------------------------------------------
(* Reply templates, lines 38-54 *)

\* U+2014 (the dash of lines 47 and 49) is outside the characters a TLA+
\* string can hold; this one-character stand-in takes its place.
EmDash == "-"

Signature == "\n\nTeam Salasar Services"

star_part(rating) ==
    IF rating = 1 THEN ToString(rating) \o " star" ELSE ToString(rating) \o " stars"

start(first_name, rating) ==
    IF rating >= 5 THEN
        "Hi " \o first_name \o ", Thank you for the " \o star_part(rating)
            \o " review. We are delighted you had an excellent experience."
    ELSE IF rating = 4 THEN
        "Hi " \o first_name \o ", Thank you for the " \o star_part(rating)
            \o " review. We appreciate the feedback."
    ELSE IF rating = 3 THEN
        "Hi " \o first_name \o ", Thank you for the " \o star_part(rating)
            \o " review. We appreciate your honest feedback and will work to improve."
    ELSE IF rating = 2 THEN
        "Hi " \o first_name \o ", We're sorry your experience was not ideal. Thank you for the "
            \o star_part(rating) \o " review " \o EmDash \o " we'll use this to improve."
    ELSE
        "Hi " \o first_name \o ", We're very sorry you had a bad experience. Thank you for the "
            \o star_part(rating) \o " review " \o EmDash
            \o " please contact us so we can make it right."

gen_reply_by_rating(first_name, rating, extra) ==
    IF extra # ""
    THEN start(first_name, rating) \o " " \o extra \o Signature
    ELSE start(first_name, rating) \o Signature

-----------------------------------------------------------------------------
(* Star tokens, lines 112-116.  A starRating value is tagged with its      *)
(* Python type: [t |-> "str", v |-> token], [t |-> "int", n |-> k] or      *)
(* [t |-> "none"] for a missing key.                                       *)

mapping(token) ==
    CASE token = "ONE" -> Some(1)
      [] token = "TWO" -> Some(2)
      [] token = "THREE" -> Some(3)
      [] token = "FOUR" -> Some(4)
      [] token = "FIVE" -> Some(5)
      [] OTHER -> None

star_rating_exact_case(star) ==
    IF star.t = "str" THEN mapping(star.v) ELSE None

star_rating(star) ==
    IF star.t = "str" THEN mapping(StrUpper(star.v)) ELSE None

-----------------------------------------------------------------------------
(* Credential loader, lines 142-156.  The secret is given by what the      *)
(* script can observe of it: its truthiness, whether it is a dict, and the *)
(* value base64-decode-then-json.loads and json.loads give (None when they *)
(* raise).  A parsed value is "info" or the falsy "{}".                    *)

SaRaw(truthy, is_dict, b64_json, raw_json) ==
    [truthy |-> truthy, is_dict |-> is_dict, b64_json |-> b64_json, raw_json |-> raw_json]

SaAbsent == SaRaw(FALSE, FALSE, None, None)
SaDict == SaRaw(TRUE, TRUE, None, None)
SaBase64 == SaRaw(TRUE, FALSE, Some("info"), None)
SaRawJson == SaRaw(TRUE, FALSE, None, Some("info"))
SaEmptyJson == SaRaw(TRUE, FALSE, None, Some("{}"))
SaMalformed == SaRaw(TRUE, FALSE, None, None)

\* lines 143-156: the value of service_account_info and whether st.error ran
service_account_info(raw) ==
    IF ~raw.truthy THEN [info |-> None, error |-> FALSE]
    ELSE IF raw.is_dict THEN [info |-> Some("info"), error |-> FALSE]
    ELSE IF raw.b64_json # None THEN [info |-> raw.b64_json, error |-> FALSE]
    ELSE IF raw.raw_json # None THEN [info |-> raw.raw_json, error |-> FALSE]
    ELSE [info |-> None, error |-> TRUE]

\* bool(service_account_info)
HasServiceAccount(sec) ==
    LET sa == service_account_info(sec.sa_json_raw).info
    IN sa # None /\ sa[1] # "{}"

-----------------------------------------------------------------------------
(* Places API, lines 60-80.  A response is the outcome of requests.get:    *)
(* http is "ok", "timeout" or "status" (raise_for_status raises); a JSON   *)
(* body carries status and result.reviews.  A raw review gives each key as *)
(* an optional value (absent key = None).                                  *)

normalize_places(rev) ==
    [ reviewId    |-> Some(OrStr(rev.author_url, "")),
      name        |-> None,
      author_name |-> Some(GetOr(rev.author_name, "")),
      rating      |-> Some(GetOr(rev.rating, 0)),
      text        |-> Some(GetOr(rev.text, "")),
      reply       |-> None ]

get_reviews_places(resp) ==
    IF resp.http # "ok" THEN Raised
    ELSE IF resp.status # "OK" THEN Raised
    ELSE Returned([i \in 1..Len(resp.reviews) |-> normalize_places(resp.reviews[i])])

-----------------------------------------------------------------------------
(* Business Profile API, lines 86-132 *)

\* line 103, accounts[acct_name] = locs: a key the dict already holds keeps
\* its place and takes the new value; a new key goes last
RECURSIVE dict_set(_, _, _)
dict_set(accounts, acct_name, locs) ==
    IF accounts = <<>> THEN <<[acct |-> acct_name, locs |-> locs]>>
    ELSE IF Head(accounts).acct = acct_name
         THEN <<[acct |-> acct_name, locs |-> locs]>> \o Tail(accounts)
         ELSE <<Head(accounts)>> \o dict_set(Tail(accounts), acct_name, locs)

\* lines 97-103: the loop over the listed accounts, from the dict built so far
RECURSIVE accounts_dict(_, _)
accounts_dict(listed, accounts) ==
    IF listed = <<>> THEN accounts
    ELSE accounts_dict(Tail(listed),
                       dict_set(accounts, Head(listed).name, Head(listed).locations.value))

\* lines 94-104: resp is Raised, or Returned(<<[name, locations]>>) where
\* locations is Raised or Returned(<<[name, storeCode]>>).  The dict built
\* is kept as the sequence of its items, in insertion order.
list_accounts_and_locations(resp) ==
    IF resp.raised THEN Raised
    ELSE IF \E i \in 1..Len(resp.value) : resp.value[i].locations.raised THEN Raised
    ELSE Returned(accounts_dict(resp.value, <<>>))

\* line 124: reviewReply is None (missing key) or a dict, given by its keys
\* comment and updateTime; a dict with no key is falsy
reply_of(r) ==
    IF r.reviewReply # None
       /\ (r.reviewReply[1].comment # None \/ r.reviewReply[1].updateTime # None)
    THEN r.reviewReply[1].comment
    ELSE None

normalize_businessprofile(r) ==
    [ reviewId    |-> r.reviewId,
      name        |-> r.name,
      author_name |-> Some(GetOr(r.displayName, "")),
      rating      |-> star_rating(r.starRating),
      text        |-> r.comment,
      reply       |-> reply_of(r) ]

\* lines 107-126
list_reviews_businessprofile(resp) ==
    IF resp.raised THEN Raised
    ELSE Returned([i \in 1..Len(resp.value) |-> normalize_businessprofile(resp.value[i])])

-----------------------------------------------------------------------------
(* Show and prepare replies, lines 211-231 *)

is_unanswered_none_only(r) == r.reply = None

\* line 213: not r.get("reply")
is_unanswered(r) == ~TruthyStr(r.reply)

unanswered_of(revs) == SelectSeq(revs, is_unanswered)

draft_rating_none_only(rev) == GetOr(rev.rating, 4)

\* line 222: rev.get("rating") or 4
draft_rating(rev) == OrInt(rev.rating, 4)

\* lines 221 and 226
draft_first_name(rev) ==
    LET author == OrStr(rev.author_name, "Customer")
    IN IF HasNonSpace(author) THEN FirstToken(author) ELSE "there"

\* line 227
preview_of(rev, default_extra) ==
    gen_reply_by_rating(draft_first_name(rev), draft_rating(rev), default_extra)

\* lines 219-228: one draft per unanswered review
drafts_of(revs, default_extra) ==
    LET un == unanswered_of(revs)
    IN [i \in 1..Len(un) |-> [review |-> un[i], preview |-> preview_of(un[i], default_extra)]]

\* lines 228-231: custom[i] is the text area's value, checked[i] the checkbox's
RECURSIVE to_post_of(_, _, _)
to_post_of(ds, custom, checked) ==
    IF ds = <<>> THEN <<>>
    ELSE (IF Head(checked)
          THEN <<[review |-> Head(ds).review, reply_text |-> Head(custom)]>>
          ELSE <<>>)
         \o to_post_of(Tail(ds), Tail(custom), Tail(checked))

-----------------------------------------------------------------------------
(* Post selected replies, lines 241-270 *)

\* lines 254-259: the first account, in dict order, that has exactly one location
RECURSIVE fallback_name(_, _)
fallback_name(accounts, review_id) ==
    IF accounts = <<>> THEN None
    ELSE IF Len(Head(accounts).locs) = 1
         THEN Some(Head(accounts).locs[1].name \o "/reviews/" \o review_id)
         ELSE fallback_name(Tail(accounts), review_id)

\* lines 250-259
review_name_of(rev, accounts) ==
    IF TruthyStr(rev.name) THEN rev.name
    ELSE fallback_name(accounts, rev.reviewId[1])

\* lines 243-268 for one item; outcome is what the reply() call does if it
\* is issued: "ok" (it returns) or "raise"
post_item(item, accounts, outcome) ==
    LET rev == item.review
        review_id == rev.reviewId
    IN IF ~TruthyStr(review_id)
       THEN [result |-> [status |-> "skipped", reason |-> "no reviewId"], call |-> None]
       ELSE LET review_name == review_name_of(rev, accounts)
            IN IF ~TruthyStr(review_name)
               THEN [result |-> [status |-> "skipped",
                                 reason |-> "cannot construct review resource name"],
                     call |-> None]
               ELSE [result |-> IF outcome = "ok"
                                THEN [status |-> "posted", reviewId |-> review_id[1],
                                      response |-> "resp"]
                                ELSE [status |-> "failed", reviewId |-> review_id[1],
                                      error |-> "err"],
                     call |-> Some([name |-> review_name[1],
                                    comment |-> item.reply_text])]

RECURSIVE post_loop_abort_on_failure(_, _, _)
post_loop_abort_on_failure(items, accounts, outcomes) ==
    IF items = <<>> THEN [results |-> <<>>, calls |-> <<>>]
    ELSE LET one == post_item(Head(items), accounts, Head(outcomes))
             rest == IF one.result.status = "failed"
                     THEN [results |-> <<>>, calls |-> <<>>]
                     ELSE post_loop_abort_on_failure(Tail(items), accounts, Tail(outcomes))
         IN [results |-> <<one.result>> \o rest.results,
             calls |-> one.call \o rest.calls]

\* lines 241-268: the loop over to_post, run to its end; outcomes[i] is the
\* outcome of item i's reply() call
RECURSIVE post_loop(_, _, _)
post_loop(items, accounts, outcomes) ==
    IF items = <<>> THEN [results |-> <<>>, calls |-> <<>>]
    ELSE LET one == post_item(Head(items), accounts, Head(outcomes))
             rest == post_loop(Tail(items), accounts, Tail(outcomes))
         IN [results |-> <<one.result>> \o rest.results,
             calls |-> one.call \o rest.calls]

\* a reply() call that is not issued has no outcome: outcomes[i] is an input
\* of the run for the items that reach line 265, and "ok" for the others
outcomes_read(items, accounts, outcomes) ==
    \A i \in 1..Len(items) :
        post_item(items[i], accounts, "ok").call = None => outcomes[i] = "ok"

\* the reply() calls of the loop run to its end; line 267 catches what a
\* call raises, so whether and how a call is issued does not depend on what
\* the calls before it did
issued_calls(items, accounts) ==
    post_loop(items, accounts, [i \in 1..Len(items) |-> "ok"]).calls

\* Every st.* call hands control to Streamlit, which stops the script there
\* (with an exception that is not an Exception, so line 267 does not catch
\* it) when the user has touched a widget or left the page meanwhile.  In
\* the loop these calls are the entry and the exit of st.spinner, line 264,
\* around each reply() call, and after it st.subheader and st.json, lines
\* 269-270.  A stop comes when n reply() calls have been issued, n in
\* StopPoints; the results list of lines 241-268 is lost with the run.
StopPoints(calls) == 0..Len(calls)

\* the reply() calls a run has issued when it is stopped after n of them
calls_until(calls, n) == SubSeq(calls, 1, n)

-----------------------------------------------------------------------------
(* SpecFn: gen_reply_by_rating and the star-token mapping, applied in any  *)
(* order to inputs from the sets below; `call` keeps the last two calls.   *)
(* These are calls of the two functions on their own, not runs of the      *)
(* script: the session variables stay as InitFn sets them.                 *)

FirstNames == {"A", "Asha", "there", "1 stars"}
Ratings == 0..6
Extras == {"", "Call us."}

StarTokens == {"ONE", "one", "One", "TWO", "tWo", "THREE", "three", "FOUR", "four",
               "FIVE", "five", "fiVe", "SIX", "ZERO", "", "5", "FIVE ", "STAR_RATING_UNSPECIFIED"}
StarValues == {[t |-> "str", v |-> tok] : tok \in StarTokens}
                  \cup {[t |-> "int", n |-> 5], [t |-> "none"]}

\* what the last run was: the widget that triggered it, whether its
\* try-block ended in the except branch, the inputs the run read, and
\* whether Streamlit stopped the script before its last line
LastRun(click, failed, default_extra, outcomes) ==
    [click |-> click, failed |-> failed, default_extra |-> default_extra,
     outcomes |-> outcomes,
     selected |-> Len(to_post), had_service |-> bp_service # None,
     stopped |-> FALSE]

NoRun == [click |-> "none", failed |-> FALSE, default_extra |-> "", outcomes |-> <<>>,
          selected |-> 0, had_service |-> FALSE, stopped |-> FALSE]

\* the page and the session before anything ran
PageBlank ==
    /\ reviews = <<>>
    /\ drafts = <<>>
    /\ to_post = <<>>
    /\ results = None
    /\ writes = <<>>

LastTwo(calls) == IF Len(calls) > 2 THEN Tail(calls) ELSE calls

\* what the body of a function of the module has in scope next to its
\* arguments: the module's globals (lines 138-161) and st.session_state
\* (lines 190-191)
ScriptGlobals ==
    {[secrets |-> [google_api_key |-> FALSE, sa_json_raw |-> SaAbsent,
                   client_available |-> FALSE],
      mode |-> "Places", bp_service |-> None, bp_accounts |-> None],
     [secrets |-> [google_api_key |-> TRUE, sa_json_raw |-> SaDict,
                   client_available |-> TRUE],
      mode |-> "Places", bp_service |-> Some(1), bp_accounts |-> Some(<<>>)],
     [secrets |-> [google_api_key |-> TRUE, sa_json_raw |-> SaDict,
                   client_available |-> TRUE],
      mode |-> "BusinessProfile", bp_service |-> Some(1), bp_accounts |-> Some(<<>>)]}

\* the scope of one call: the globals, and whatever earlier calls left behind
ScopeOf(globals, earlier) ==
    [secrets |-> globals.secrets, mode |-> globals.mode,
     bp_service |-> globals.bp_service, bp_accounts |-> globals.bp_accounts,
     earlier |-> earlier]

EarlierCompose(g) == SelectSeq(g.earlier, LAMBDA c : c.fn = "gen_reply_by_rating")

\* a rating kept in a module-level name that an earlier call has set
call_gen_reply_by_rating_stale_rating(g, first_name, rating, extra) ==
    IF EarlierCompose(g) = <<>>
    THEN gen_reply_by_rating(first_name, rating, extra)
    ELSE gen_reply_by_rating(first_name,
                             EarlierCompose(g)[Len(EarlierCompose(g))].args[2], extra)

\* gen_reply_by_rating called with the globals g in scope: lines 39-54 name
\* first_name, rating and extra and nothing else, assign no global, and the
\* default of extra is an immutable ""
call_gen_reply_by_rating(g, first_name, rating, extra) ==
    gen_reply_by_rating(first_name, rating, extra)

InitFn ==
    /\ secrets = [google_api_key |-> FALSE, sa_json_raw |-> SaAbsent,
                  client_available |-> FALSE]
    /\ mode = "Places"
    /\ bp_service = None
    /\ bp_accounts = None
    /\ PageBlank
    /\ errors = {}
    /\ last = NoRun
    /\ call = <<>>

\* the function applied to arguments from the sets above, with globals g
\* and the earlier calls in scope; the call changes nothing but the record
\* of calls
CallCompose ==
    /\ \E g \in ScriptGlobals, n \in FirstNames, r \in Ratings, e \in Extras :
           call' = LastTwo(Append(call,
                       [fn |-> "gen_reply_by_rating",
                        args |-> <<n, r, e>>,
                        globals |-> g,
                        out |-> call_gen_reply_by_rating(ScopeOf(g, call), n, r, e)]))
    /\ UNCHANGED <<secrets, mode, bp_service, bp_accounts, reviews,
                   drafts, to_post, results, writes, errors, last>>

CallStarRating ==
    /\ \E star \in StarValues :
           call' = LastTwo(Append(call, [fn |-> "star_rating",
                                         args |-> <<star>>,
                                         out |-> star_rating(star)]))
    /\ UNCHANGED <<secrets, mode, bp_service, bp_accounts, reviews,
                   drafts, to_post, results, writes, errors, last>>

NextFn == CallCompose \/ CallStarRating

SpecFn == InitFn /\ [][NextFn]_vars

\* an occurrence of sub in s that is not followed by the character c
ContainsNotFollowedBy(s, sub, c) ==
    \E i \in 1..(Len(s) - Len(sub) + 1) :
        /\ SubSeq(s, i, i + Len(sub) - 1) = sub
        /\ (i + Len(sub) > Len(s) \/ CharAt(s, i + Len(sub)) # c)

ComposeCalls == {i \in 1..Len(call) : call[i].fn = "gen_reply_by_rating"}
StarCalls == {i \in 1..Len(call) : call[i].fn = "star_rating"}

\* C8: for a rating r in 1..5, a non-empty first name and no extra text, the
\* reply holds "1 star" not followed by an s when r = 1 and "<r> stars"
\* otherwise; and two calls with the same (n, r, extra) return the same
\* string, whatever the mode, the secrets, the session and the earlier calls
\* that are in scope of each.
C8_StarPhrase ==
    /\ \A i \in ComposeCalls :
           LET n == call[i].args[1]
               r == call[i].args[2]
               e == call[i].args[3]
           IN (r \in 1..5 /\ n # "" /\ e = "") =>
                  IF r = 1
                  THEN ContainsNotFollowedBy(call[i].out, "1 star", "s")
                  ELSE Contains(call[i].out, ToString(r) \o " stars")
    /\ \A i, j \in ComposeCalls :
           call[i].args = call[j].args => call[i].out = call[j].out

C8_Witness ==
    /\ Len(call) = 2
    /\ ComposeCalls = {1, 2}
    /\ call[1].args = <<"Asha", 1, "">>
    /\ call[2].args = <<"Asha", 1, "">>
    /\ call[1].globals.mode = "Places"
    /\ call[1].globals.bp_service = None
    /\ call[2].globals.mode = "BusinessProfile"
    /\ call[2].globals.bp_service # None
    /\ call[1].out = call[2].out
    /\ call[2].out = "Hi Asha, We're very sorry you had a bad experience. Thank you for the 1 star review - please contact us so we can make it right.\n\nTeam Salasar Services"

\* the tokens that are one of the five names in some letter case
TokenValue(tok) ==
    CASE tok \in {"ONE", "one", "One"} -> Some(1)
      [] tok \in {"TWO", "tWo"} -> Some(2)
      [] tok \in {"THREE", "three"} -> Some(3)
      [] tok \in {"FOUR", "four"} -> Some(4)
      [] tok \in {"FIVE", "five", "fiVe"} -> Some(5)
      [] OTHER -> None

\* C9: a star token that is ONE..FIVE in any letter case maps to 1..5; any
\* other token, a missing value and a non-string value map to an absent rating.
C9_StarTokenMapping ==
    \A i \in StarCalls :
        LET star == call[i].args[1]
        IN IF star.t = "str"
           THEN call[i].out = TokenValue(star.v)
           ELSE call[i].out = None

C9_Witness ==
    /\ Len(call) = 2
    /\ call[1] = [fn |-> "star_rating", args |-> <<[t |-> "str", v |-> "fiVe"]>>, out |-> Some(5)]
    /\ call[2] = [fn |-> "star_rating", args |-> <<[t |-> "str", v |-> "SIX"]>>, out |-> None]

-----------------------------------------------------------------------------
(* What the two APIs can answer *)

Loc(n) == [name |-> "accounts/" \o n[1] \o "/locations/" \o n[2], storeCode |-> n[2]]

AccountsResponses ==
    { Raised,
      Returned(<<>>),
      Returned(<<[name |-> "accounts/a1", locations |-> Raised]>>),
      Returned(<<[name |-> "accounts/a1", locations |-> Returned(<<>>)]>>),
      Returned(<<[name |-> "accounts/a1", locations |-> Returned(<<Loc(<<"a1", "l1">>)>>)]>>),
      Returned(<<[name |-> "accounts/a1",
                  locations |-> Returned(<<Loc(<<"a1", "l1">>), Loc(<<"a1", "l2">>)>>)]>>),
      Returned(<<[name |-> "accounts/a1", locations |-> Returned(<<Loc(<<"a1", "l1">>)>>)],
                 [name |-> "accounts/a2", locations |-> Returned(<<Loc(<<"a2", "l3">>)>>)]>>),
      Returned(<<[name |-> "accounts/a1", locations |-> Returned(<<Loc(<<"a1", "l1">>)>>)],
                 [name |-> "accounts/a2", locations |-> Returned(<<Loc(<<"a2", "l3">>)>>)],
                 [name |-> "accounts/a1",
                  locations |-> Returned(<<Loc(<<"a1", "l1">>), Loc(<<"a1", "l2">>)>>)]>>),
      Returned(<<[name |-> "accounts/a1",
                  locations |-> Returned(<<Loc(<<"a1", "l1">>), Loc(<<"a1", "l2">>)>>)],
                 [name |-> "accounts/a2", locations |-> Returned(<<Loc(<<"a2", "l3">>)>>)]>>) }

\* the mappings a successful connect can store
AccountMappings ==
    {list_accounts_and_locations(resp).value :
        resp \in {r \in AccountsResponses : ~list_accounts_and_locations(r).raised}}

BPReview(id, name, display, star, reply) ==
    [reviewId |-> id, name |-> name, displayName |-> display,
     starRating |-> star, comment |-> Some("Good"), reviewReply |-> reply]

Str(tok) == [t |-> "str", v |-> tok]

\* r1: unanswered, with reviewId and name each present, empty or missing; r2: answered; r3/r4: a reply dict without text
RawBPReviews ==
    { BPReview(p[1], p[2], Some("Asha K"), Str("FIVE"), None) :
          p \in ({None, Some(""), Some("r1")}
                   \X {None, Some(""), Some("accounts/a1/locations/l1/reviews/r1")})
                 \ {<<None, Some("")>>, <<Some(""), Some("")>>, <<Some(""), None>>} }
    \cup
    { BPReview(Some("r2"), Some("accounts/a1/locations/l1/reviews/r2"), Some("Ben"),
               Str("one"), Some([comment |-> Some("Thanks"), updateTime |-> Some("t")])),
      BPReview(Some("r3"), Some("accounts/a1/locations/l1/reviews/r3"), None,
               Str("SIX"),
               Some([comment |-> Some(""), updateTime |-> None])),
      BPReview(Some("r4"), None, Some(" \r\f" \o FS \o GS),
               [t |-> "none"], Some([comment |-> None, updateTime |-> Some("t")])) }

PlacesReview(url, author, rating) ==
    [author_url |-> url, author_name |-> author, rating |-> rating, text |-> Some("Good")]

RawPlacesReviews ==
    { PlacesReview(Some("https://maps/u1"), Some("Ravi Kumar"), Some(5)),
      PlacesReview(Some("https://maps/u2"), Some("Meera"), Some(3)),
      PlacesReview(Some("https://maps/u3"), Some(VT \o "\fDev" \o RS \o US \o "K"), Some(1)),
      PlacesReview(None, None, None) }

SeqsUpTo(S, n) == UNION {[1..k -> S] : k \in 0..n}

\* the reviews the session of Spec fetches: an unanswered one, an answered
\* one and one with no rating
SessionBPReviews ==
    { BPReview(Some("r1"), Some("accounts/a1/locations/l1/reviews/r1"), Some("Asha K"),
               Str("FIVE"), None),
      BPReview(Some("r2"), Some("accounts/a1/locations/l1/reviews/r2"), Some("Ben"),
               Str("one"), Some([comment |-> Some("Thanks"), updateTime |-> Some("t")])),
      BPReview(Some("r4"), None, Some(" \r\f" \o FS \o GS),
               [t |-> "none"], Some([comment |-> None, updateTime |-> Some("t")])) }

SessionPlacesReviews ==
    { PlacesReview(Some("https://maps/u1"), Some("Ravi Kumar"), Some(5)),
      PlacesReview(None, None, None) }

PlacesResponses ==
    { [http |-> "timeout"], [http |-> "status"],
      [http |-> "ok", status |-> "REQUEST_DENIED", reviews |-> <<>>] }
    \cup { [http |-> "ok", status |-> "OK", reviews |-> revs] :
               revs \in SeqsUpTo(SessionPlacesReviews, MaxReviews) }

ReviewsResponses ==
    {Raised} \cup {Returned(revs) : revs \in SeqsUpTo(SessionBPReviews, MaxReviews)}

-----------------------------------------------------------------------------
(* Spec: the session.  Every action is one run of the script, triggered by *)
(* one widget; a widget can trigger a run only if the previous run drew it. *)

Secrets ==
    [google_api_key : BOOLEAN,
     sa_json_raw : {SaAbsent, SaDict, SaBase64, SaRawJson, SaEmptyJson, SaMalformed},
     client_available : BOOLEAN]

\* the messages every run prints before it reaches a button: lines 155,
\* 167, 179, 182
BaseErrors(sec, m) ==
    (IF service_account_info(sec.sa_json_raw).error THEN {"parse"} ELSE {})
    \cup (IF m = "Places" /\ ~sec.google_api_key THEN {"no_api_key"} ELSE {})
    \cup (IF m = "BusinessProfile" /\ ~HasServiceAccount(sec) THEN {"no_service_account"} ELSE {})
    \cup (IF m = "BusinessProfile" /\ HasServiceAccount(sec) /\ ~sec.client_available
          THEN {"no_client_library"} ELSE {})

\* lines 165-170: the Places fetch button is drawn
places_button_rendered(sec, m) == m = "Places" /\ sec.google_api_key

connect_button_without_credential(sec, m) == m = "BusinessProfile" /\ sec.client_available

\* lines 177-184: the connect button is drawn
connect_button_rendered(sec, m) ==
    m = "BusinessProfile" /\ HasServiceAccount(sec) /\ sec.client_available

\* lines 196-201: the location fetch button (and the two selectboxes) are drawn
location_button_rendered(sec, m, accounts) ==
    connect_button_rendered(sec, m) /\ accounts # None /\ accounts[1] # <<>>

\* lines 211-236: the post button, the extra-text area and the drafts are drawn
post_button_rendered(revs) == revs # <<>>

connect_session_service_first(service, accounts, handle, create, resp) ==
    IF create = "raise"
    THEN [service |-> service, accounts |-> accounts, failed |-> TRUE]
    ELSE IF list_accounts_and_locations(resp).raised
    THEN [service |-> Some(handle), accounts |-> accounts, failed |-> TRUE]
    ELSE [service |-> Some(handle),
          accounts |-> Some(list_accounts_and_locations(resp).value), failed |-> FALSE]

\* lines 185-194: create is what create_business_profile_service_from_
\* service_account does ("ok" or "raise"), handle the new service object,
\* resp what the account and location listing answers
connect_session(service, accounts, handle, create, resp) ==
    IF create = "raise" \/ list_accounts_and_locations(resp).raised
    THEN [service |-> service, accounts |-> accounts, failed |-> TRUE]
    ELSE [service |-> Some(handle),
          accounts |-> Some(list_accounts_and_locations(resp).value), failed |-> FALSE]

\* the page of a run whose fetch gave revs: lines 211-234 with every
\* widget at its default (extra text "", reply text = preview, box checked)
ShowFetched(revs) ==
    /\ reviews' = revs
    /\ drafts' = drafts_of(revs, "")
    /\ to_post' = to_post_of(drafts',
                             [i \in 1..Len(drafts') |-> drafts'[i].preview],
                             [i \in 1..Len(drafts') |-> TRUE])
    /\ results' = None

\* the page of a run in which no fetch button read True: line 163 stands,
\* so line 211 is False and nothing below it runs
ShowNothing ==
    /\ reviews' = <<>>
    /\ drafts' = <<>>
    /\ to_post' = <<>>
    /\ results' = None

Init ==
    /\ secrets \in Secrets
    /\ mode = "Places"
    /\ bp_service = None
    /\ bp_accounts = None
    /\ PageBlank
    /\ errors = BaseErrors(secrets, mode)
    /\ last = NoRun
    /\ call = <<>>

SelectMode ==
    /\ \E m \in {"Places", "BusinessProfile"} :
           /\ m # mode
           /\ mode' = m
           /\ errors' = BaseErrors(secrets, m)
    /\ ShowNothing
    /\ last' = LastRun("select_mode", FALSE, "", <<>>)
    /\ UNCHANGED <<secrets, bp_service, bp_accounts, writes, call>>

ClickFetchPlaces ==
    /\ places_button_rendered(secrets, mode)
    /\ \E resp \in PlacesResponses :
           LET got == get_reviews_places(resp)
           IN IF got.raised
              THEN /\ ShowNothing
                   /\ errors' = BaseErrors(secrets, mode) \cup {"fetch"}
                   /\ last' = LastRun("fetch_places", TRUE, "", <<>>)
              ELSE /\ ShowFetched(got.value)
                   /\ errors' = BaseErrors(secrets, mode)
                   /\ last' = LastRun("fetch_places", FALSE, "", <<>>)
    /\ UNCHANGED <<secrets, mode, bp_service, bp_accounts, writes, call>>

NextHandle == IF bp_service = None THEN 1 ELSE bp_service[1] + 1

ClickConnect ==
    /\ connect_button_rendered(secrets, mode)
    /\ \E create \in {"ok", "raise"}, resp \in AccountsResponses :
           LET s == connect_session(bp_service, bp_accounts, NextHandle, create, resp)
           IN /\ (create = "ok" => NextHandle <= MaxConnects)
              /\ bp_service' = s.service
              /\ bp_accounts' = s.accounts
              /\ errors' = BaseErrors(secrets, mode)
                               \cup (IF s.failed THEN {"connect"} ELSE {})
              /\ last' = LastRun("connect", s.failed, "", <<>>)
    /\ ShowNothing
    /\ UNCHANGED <<secrets, mode, writes, call>>

SelectLocation ==
    /\ location_button_rendered(secrets, mode, bp_accounts)
    /\ ShowNothing
    /\ errors' = BaseErrors(secrets, mode)
    /\ last' = LastRun("select_location", FALSE, "", <<>>)
    /\ UNCHANGED <<secrets, mode, bp_service, bp_accounts, writes, call>>

ClickFetchLocation ==
    /\ location_button_rendered(secrets, mode, bp_accounts)
    /\ \E resp \in ReviewsResponses :
           LET got == list_reviews_businessprofile(resp)
           IN IF got.raised
              THEN /\ ShowNothing
                   /\ errors' = BaseErrors(secrets, mode) \cup {"fetch"}
                   /\ last' = LastRun("fetch_location", TRUE, "", <<>>)
              ELSE /\ ShowFetched(got.value)
                   /\ errors' = BaseErrors(secrets, mode)
                   /\ last' = LastRun("fetch_location", FALSE, "", <<>>)
    /\ UNCHANGED <<secrets, mode, bp_service, bp_accounts, writes, call>>

\* editing the extra text or a reply text, or toggling a checkbox
EditOrToggle ==
    /\ post_button_rendered(reviews)
    /\ ShowNothing
    /\ errors' = BaseErrors(secrets, mode)
    /\ last' = LastRun("edit_or_toggle", FALSE, "", <<>>)
    /\ UNCHANGED <<secrets, mode, bp_service, bp_accounts, writes, call>>

\* the click on "Post selected replies now": in the run it triggers no
\* fetch button reads True, so `reviews` is [] at line 211 and line 236 is
\* not reached
ClickPost ==
    /\ post_button_rendered(reviews)
    /\ ShowNothing
    /\ errors' = BaseErrors(secrets, mode)
    /\ last' = LastRun("post", FALSE, "", <<>>)
    /\ UNCHANGED <<secrets, mode, bp_service, bp_accounts, writes, call>>

Next ==
    \/ SelectMode
    \/ ClickFetchPlaces
    \/ ClickConnect
    \/ SelectLocation
    \/ ClickFetchLocation
    \/ EditOrToggle
    \/ ClickPost

Spec == Init /\ [][Next]_vars

-----------------------------------------------------------------------------
(* SpecPost: lines 211-270 in a run where `reviews` holds what a fetcher   *)
(* returned and st.button of line 236 reads True.  The inputs are the      *)
(* session state, the review list, the extra text, each review's widgets,  *)
(* what each reply() call does, and the point where the run ends: its last *)
(* line, or an st.* call at which Streamlit stops the script.              *)

FetchedByPlaces ==
    {get_reviews_places([http |-> "ok", status |-> "OK", reviews |-> revs]).value :
        revs \in SeqsUpTo(RawPlacesReviews, MaxReviews)}

FetchedByBusinessProfile ==
    {list_reviews_businessprofile(Returned(revs)).value :
        revs \in SeqsUpTo(RawBPReviews, MaxReviews)}

InitPost ==
    /\ secrets = [google_api_key |-> TRUE, sa_json_raw |-> SaDict, client_available |-> TRUE]
    /\ \/ /\ bp_service = None
          /\ bp_accounts = None
       \/ /\ bp_service = Some(1)
          /\ bp_accounts \in {Some(m) : m \in AccountMappings}
    /\ \/ /\ mode = "Places"
          /\ reviews \in FetchedByPlaces
       \/ /\ mode = "BusinessProfile"
          /\ reviews \in FetchedByBusinessProfile
    /\ drafts = <<>>
    /\ to_post = <<>>
    /\ results = None
    /\ writes = <<>>
    /\ errors = {}
    /\ last = NoRun
    /\ call = <<>>

\* a review's two widgets: the box unchecked, or checked with the reply
\* text left as drafted or edited
WidgetStates == {"unchecked", "checked", "edited"}

custom_of(ds, widgets) ==
    [i \in 1..Len(ds) |-> IF widgets[i] = "edited" THEN "Edited reply" ELSE ds[i].preview]

checked_of(ds, widgets) == [i \in 1..Len(ds) |-> widgets[i] # "unchecked"]

PostSection ==
    /\ reviews # <<>>
    /\ last.click = "none"
    /\ \E default_extra \in Extras :
         \E widgets \in [1..Len(unanswered_of(reviews)) -> WidgetStates] :
           /\ drafts' = drafts_of(reviews, default_extra)
           /\ to_post' = to_post_of(drafts', custom_of(drafts', widgets),
                                    checked_of(drafts', widgets))
           /\ IF bp_service = None
              THEN \E stopped \in BOOLEAN :
                     /\ results' = None
                     /\ writes' = writes
                     /\ errors' = IF stopped THEN {} ELSE {"no_service"}
                     /\ last' = [LastRun("post", FALSE, default_extra, <<>>)
                                    EXCEPT !.stopped = stopped]
              ELSE \/ \E outcomes \in [1..Len(to_post') -> {"ok", "raise"}] :
                        LET done == post_loop(to_post', GetOr(bp_accounts, <<>>), outcomes)
                        IN /\ outcomes_read(to_post', GetOr(bp_accounts, <<>>), outcomes)
                           /\ results' = Some(done.results)
                           /\ writes' = writes \o done.calls
                           /\ errors' = {}
                           /\ last' = LastRun("post", FALSE, default_extra, outcomes)
                   \/ LET calls == issued_calls(to_post', GetOr(bp_accounts, <<>>))
                      IN \E n \in StopPoints(calls) :
                           /\ results' = None
                           /\ writes' = writes \o calls_until(calls, n)
                           /\ errors' = {}
                           /\ last' = [LastRun("post", FALSE, default_extra, <<>>)
                                          EXCEPT !.stopped = TRUE]
    /\ UNCHANGED <<secrets, mode, bp_service, bp_accounts, reviews, call>>

NextPost == PostSection

SpecPost == InitPost /\ [][NextPost]_vars

-----------------------------------------------------------------------------
(* Properties of the session (Spec) *)

\* C1: when the post button is clicked on a page that shows at least one
\* selected review while a service handle is connected, the run it triggers
\* reaches the submitter and displays one outcome per selected review.
C1_PostClickRunsSubmitter ==
    (last.click = "post" /\ last.had_service /\ last.selected > 0)
        => (results # None /\ Len(results[1]) = last.selected)

\* C5: a connect or fetch run that ends in its except branch leaves
\* bp_service and bp_accounts exactly as they were before the run, and
\* reports the failure.
C5_FailedActionKeepsSession ==
    [][ (last'.click \in {"connect", "fetch_places", "fetch_location"} /\ last'.failed)
            => /\ bp_service' = bp_service
               /\ bp_accounts' = bp_accounts
               /\ errors' \cap {"connect", "fetch"} # {} ]_vars

C5_Witness ==
    /\ last.click = "connect"
    /\ last.failed
    /\ "connect" \in errors
    /\ bp_service = Some(1)
    /\ bp_accounts # None
    /\ bp_accounts[1] # <<>>

\* C7: while the service-account credential is unset, no connect run has
\* happened, the session holds no service handle and no account mapping,
\* and no reply() call has been issued.
C7_NoCredentialNoWrite ==
    ~HasServiceAccount(secrets) =>
        /\ last.click # "connect"
        /\ bp_service = None
        /\ bp_accounts = None
        /\ writes = <<>>
        /\ results = None

C7_Witness ==
    /\ secrets.sa_json_raw = SaMalformed
    /\ secrets.client_available
    /\ "parse" \in errors
    /\ "no_service_account" \in errors
    /\ mode = "BusinessProfile"
    /\ last.click = "select_mode"
    /\ bp_service = None

-----------------------------------------------------------------------------
(* Properties of the post section (SpecPost) *)

\* the post section ran to its last line, st.json(results) of line 270
Posted == last.click = "post" /\ results # None

\* the post section was entered with a service handle and Streamlit stopped
\* the script before line 270
StoppedPosting == last.click = "post" /\ last.had_service /\ last.stopped

\* the reply() calls issued carry the texts of distinct selected reviews,
\* in the order of the selection
IssuedOncePerReviewInOrder ==
    \E f \in [1..Len(writes) -> 1..Len(to_post)] :
        /\ \A k \in 1..Len(writes) : writes[k].comment = to_post[f[k]].reply_text
        /\ \A j, k \in 1..Len(writes) : j < k => f[j] < f[k]

Attempted(rs) == {i \in 1..Len(rs) : rs[i].status # "skipped"}

\* the item whose reply() call is the k-th one issued
AttemptIndex(rs, k) ==
    CHOOSE i \in Attempted(rs) : Cardinality({j \in Attempted(rs) : j <= i}) = k

\* C2: a post action that no overlapping user action stops gives one
\* outcome per selected review, in the order of the selection; a reply()
\* call that raises makes that review's outcome "failed" and no other's;
\* every review that has an id and a name is attempted wherever it stands;
\* each attempted review has exactly one reply() call, issued in order with
\* that review's text.  A post action that Streamlit stops shows no outcome,
\* and stopped or not, no selected review has more than one reply() call.
C2_OneOutcomePerReview ==
    /\ Posted =>
          LET rs == results[1]
          IN /\ ~last.stopped
             /\ Len(rs) = Len(to_post)
             /\ \A i \in 1..Len(rs) :
                    /\ rs[i].status \in {"posted", "skipped", "failed"}
                    /\ rs[i].status # "skipped" =>
                          /\ rs[i].reviewId = to_post[i].review.reviewId[1]
                          /\ (rs[i].status = "failed" <=> last.outcomes[i] = "raise")
                    /\ (TruthyStr(to_post[i].review.reviewId) /\ TruthyStr(to_post[i].review.name))
                          => rs[i].status # "skipped"
             /\ Len(writes) = Cardinality(Attempted(rs))
             /\ \A k \in 1..Len(writes) :
                    writes[k].comment = to_post[AttemptIndex(rs, k)].reply_text
    /\ (last.click = "post" /\ last.had_service /\ ~last.stopped) => Posted
    /\ StoppedPosting => results = None
    /\ last.click = "post" => IssuedOncePerReviewInOrder

C2_Witness ==
    /\ Posted
    /\ Len(to_post) = 2
    /\ results[1][1].status = "failed"
    /\ results[1][2].status = "posted"
    /\ Len(writes) = 2

\* C3: every selected review that carries a non-empty resource name is
\* attempted, with a reply() call on exactly that name, whatever its
\* reviewId is.
C3_DirectNameAlwaysUsed ==
    Posted =>
        \A i \in 1..Len(to_post) :
            TruthyStr(to_post[i].review.name) =>
                /\ results[1][i].status # "skipped"
                /\ \E k \in 1..Len(writes) : writes[k].name = to_post[i].review.name[1]

RECURSIVE KnownLocations(_)
KnownLocations(accounts) ==
    IF accounts = <<>> THEN 0
    ELSE Len(Head(accounts).locs) + KnownLocations(Tail(accounts))

\* C4: a selected review without a direct resource name is attempted only
\* when the mapping knows exactly one location; with zero or several known
\* locations its outcome is "skipped".
C4_FallbackNeedsSingleLocation ==
    Posted =>
        \A i \in 1..Len(to_post) :
            (~TruthyStr(to_post[i].review.name)
                /\ KnownLocations(GetOr(bp_accounts, <<>>)) # 1)
                   => results[1][i].status = "skipped"

AnsweredAtFetch(r) == r.reply # None /\ r.reply # Some("")

\* C6: the drafts shown are exactly the fetched reviews whose reply is
\* absent or empty; only such reviews are selected; no reply() call names
\* a review that had a reply; a list fetched through the key-based backend
\* is drafted whole.
C6_OnlyUnansweredOffered ==
    last.click = "post" =>
        /\ Len(drafts) = Cardinality({i \in 1..Len(reviews) : ~AnsweredAtFetch(reviews[i])})
        /\ \A i \in 1..Len(drafts) : ~AnsweredAtFetch(drafts[i].review)
        /\ \A i \in 1..Len(reviews) :
               ~AnsweredAtFetch(reviews[i]) =>
                   \E j \in 1..Len(drafts) : drafts[j].review = reviews[i]
        /\ \A i \in 1..Len(to_post) :
               /\ ~AnsweredAtFetch(to_post[i].review)
               /\ \E j \in 1..Len(drafts) : drafts[j].review = to_post[i].review
        /\ Len(writes) <= Len(to_post)
        /\ \A i \in 1..Len(reviews), k \in 1..Len(writes) :
               AnsweredAtFetch(reviews[i]) =>
                   /\ Some(writes[k].name) # reviews[i].name
                   /\ TruthyStr(reviews[i].reviewId) =>
                          ~Contains(writes[k].name, "/reviews/" \o reviews[i].reviewId[1])
        /\ mode = "Places" => Len(drafts) = Len(reviews)

C6_Witness ==
    /\ Posted
    /\ Len(reviews) = 2
    /\ AnsweredAtFetch(reviews[1])
    /\ reviews[2].reply = Some("")
    /\ Len(drafts) = 1
    /\ Len(writes) = 1

\* the opening of each rating's bucket, after the greeting
BucketOpening(r) ==
    CASE r = 5 -> "Thank you for the 5 stars review. We are delighted you had an excellent experience."
      [] r = 4 -> "Thank you for the 4 stars review. We appreciate the feedback."
      [] r = 3 -> "Thank you for the 3 stars review. We appreciate your honest feedback and will work to improve."
      [] r = 2 -> "We're sorry your experience was not ideal. Thank you for the 2 stars review"
      [] r = 1 -> "We're very sorry you had a bad experience. Thank you for the 1 star review"

\* C10: a review whose rating is absent or 0 is drafted as
\* gen_reply_by_rating(first name, 4, extra), with "4 stars" and the
\* appreciative opening; a review rated 1..5 is drafted with the opening of
\* its own bucket.
C10_AbsentRatingDraftsAsFour ==
    last.click = "post" =>
        \A i \in 1..Len(drafts) :
            LET rev == drafts[i].review
            IN IF rev.rating = None \/ rev.rating = Some(0)
               THEN /\ drafts[i].preview =
                          gen_reply_by_rating(draft_first_name(rev), 4, last.default_extra)
                    /\ Contains(drafts[i].preview, BucketOpening(4))
               ELSE rev.rating[1] \in 1..5 =>
                        Contains(drafts[i].preview, BucketOpening(rev.rating[1]))

C10_Witness ==
    /\ last.click = "post"
    /\ Len(drafts) = 2
    /\ last.default_extra = "Call us."
    /\ drafts[1].review.rating = Some(0)
    /\ drafts[2].review.rating = Some(1)
    /\ Contains(drafts[1].preview, "Hi Customer, Thank you for the 4 stars review. We appreciate the feedback. Call us.")
    /\ drafts[2].review.author_name = Some(VT \o "\fDev" \o RS \o US \o "K")
    /\ Contains(drafts[2].preview, "Hi Dev, We're very sorry")
    /\ Contains(drafts[2].preview, "1 star review")

====
